---- MODULE Spec2Model ----
(***************************************************************************)
(* Game-of-Life animated SVG generator (scripts/generate_svg.py) and its   *)
(* validator (scripts/validate_svg.py).                                    *)
(*                                                                         *)
(* Python lists are 0-indexed, TLA+ sequences are 1-indexed: a matrix is a *)
(* sequence of rows, the code's cell (r, c) is the model's [r+1][c+1].     *)
(* Frame and keyframe numbers k keep the code's 0-based numbering.         *)
(***************************************************************************)
EXTENDS Integers, Sequences, FiniteSets, TLC

\* ---- bounds of the model -------------------------------------------------
MaxRows == 3
MaxCols == 3
SimRows == 2
SimCols == 3
MaxSteps == 3
MaxGroups == 2
MaxRects == 2
MaxInner == 2
RenderCols == 1
MaxFrames == 3
MainRects == 1
MainSteps == 2

\* ---- constants of the program ---------------------------------------------
FetchRows == 7
RowPitch == 10
DefaultCell == 10
DefaultGap == 2
DefaultFrameMs == 80

VARIABLES
  state,    \* life_step: the matrix passed in
  result,   \* life_step: the matrix returned
  lpc       \* life_step: "input" before the call, "stepped" after it

lifeVars == <<state, result, lpc>>

VARIABLES
  heap,     \* simulate: the list objects; an address is an index into heap
  seed,     \* simulate: address of the caller's matrix (parameter state)
  seedVal,  \* the contents of the caller's matrix when simulate was called
  steps,    \* simulate: parameter steps
  frames,   \* simulate: the list frames, a sequence of addresses
  cur,      \* simulate: local cur, an address
  nxt,      \* life_step: local nxt, an address (0 before it is created)
  iter,     \* simulate: completed iterations of "for _ in range(steps - 1)"
  wr, wc,   \* life_step: loop variables r and c of lines 76-77 (1-based)
  simpc     \* "call", "loop", "cells", "done"

simVars == <<heap, seed, seedVal, steps, frames, cur, nxt, iter, wr, wc, simpc>>

VARIABLES
  fpc,        \* fetch_contributions_matrix: "call", "weeks", "returned", "raised"
  ferr,       \* the exception it raised, "none" if none
  columns,    \* local columns, column-major
  weekNo,     \* groups of svg.find_all("g") iterated so far
  dataWeeks,  \* of these, the groups that held at least one rect
  lastRects,  \* the rects of the group iterated last
  lastRows,   \* per rect of that group the code reached: the index yi it computed
  lastSlots,  \* per rect of that group that was written: the row of col assigned
  grid        \* the returned matrix

fetchVars == <<fpc, ferr, columns, weekNo, dataWeeks, lastRects, lastRows, lastSlots, grid>>

VARIABLES
  vfile,     \* validate_svg.main: what ET.parse makes of the file at path
  vpc,       \* "call" before main runs, "returned" after
  exitCode   \* the value main returned

valVars == <<vfile, vpc, exitCode>>

VARIABLES
  rframes,   \* render_animated_svg: parameter frames, by value
  style,     \* its parameters cell, gap, alive_color, dead_color, frame_duration, out_path
  rpc,       \* "call", "groups", "makedirs", "open", "write", "returned", "raised"
  rerr,      \* the exception it raised, "none" if none
  parts,     \* local parts
  keyTimes,  \* local key_times, as written by key_times_str: millionths
  gk,        \* loop variable k of line 127
  outFile,   \* the file at out_path
  outFile0,  \* the file at out_path before the run
  writes,    \* calls of f.write so far
  ppc,       \* a viewer of the written document: "idle", "playing"
  tnow,      \* the viewer's time within one cycle, in millionths of the cycle
  shown      \* the frame groups whose animated opacity is 1 at tnow

renderVars == <<rframes, style, rpc, rerr, parts, keyTimes, gk, outFile, outFile0, writes>>
playVars == <<ppc, tnow, shown>>

VARIABLE mpc   \* generate_svg.main: "fetch", "render", "done", "aborted"

vars == <<lifeVars, simVars, fetchVars, valVars, renderVars, playVars, mpc>>

\* ---- matrices --------------------------------------------------------------
Cells == {0, 1}

\* Every rectangular binary matrix of at most maxR rows and maxC columns.  A
\* Python matrix without rows has no column count: [] is the only one.
Matrices(maxR, maxC) ==
  UNION { [1..nr -> [1..nc -> Cells]] : nr \in 0..maxR, nc \in 0..maxC }

NumRows(m) == Len(m)
NumCols(m) == IF Len(m) > 0 THEN Len(m[1]) ELSE 0

\* ---- life_step (generate_svg.py:59-83) -------------------------------------
\* The nested function neighbors(r, c): the double loop over dr, dc in
\* (-1, 0, 1), skipping (0, 0) and every position outside the matrix.
\* neighborsWrap is the count on a torus, which the code does not compute.
neighborsWrap(st, rows, cols, r, c) ==
  LET cell(dr, dc) ==
        IF dr = 0 /\ dc = 0 THEN 0
        ELSE st[((r + dr - 1) % rows) + 1][((c + dc - 1) % cols) + 1]
      line(dr) == cell(dr, -1) + cell(dr, 0) + cell(dr, 1)
  IN  line(-1) + line(0) + line(1)

neighbors(st, rows, cols, r, c) ==
  LET cell(dr, dc) ==
        IF dr = 0 /\ dc = 0 THEN 0
        ELSE LET rr == r + dr
                 cc == c + dc
             IN  IF 1 <= rr /\ rr <= rows /\ 1 <= cc /\ cc <= cols
                 THEN st[rr][cc] ELSE 0
      line(dr) == cell(dr, -1) + cell(dr, 0) + cell(dr, 1)
  IN  line(-1) + line(0) + line(1)

\* Lines 78-82: the value written to nxt[r][c].
nextCell(st, rows, cols, r, c) ==
  LET n == neighbors(st, rows, cols, r, c)
  IN  IF st[r][c] = 1
      THEN (IF n = 2 \/ n = 3 THEN 1 ELSE 0)
      ELSE (IF n = 3 THEN 1 ELSE 0)

life_step(st) ==
  LET rows == Len(st)
      cols == IF rows > 0 THEN Len(st[1]) ELSE 0
  IN  [r \in 1..rows |-> [c \in 1..cols |-> nextCell(st, rows, cols, r, c)]]

\* Lines 88-91: cur after i iterations of the loop of simulate.
RECURSIVE Generation(_, _)
Generation(m, i) == IF i = 0 THEN m ELSE life_step(Generation(m, i - 1))

\* simulate(state, steps) by value: range(steps - 1) is empty for steps <= 1.
simulate(m, n) == [i \in 1..(IF n >= 1 THEN n ELSE 1) |-> Generation(m, i - 1)]

\* ---- idle values of the parts a specification does not run -----------------
LifeIdle == state = <<>> /\ result = <<>> /\ lpc = "idle"

SimIdle ==
  /\ heap = <<>> /\ seed = 0 /\ seedVal = <<>> /\ steps = 0 /\ frames = <<>>
  /\ cur = 0 /\ nxt = 0 /\ iter = 0 /\ wr = 0 /\ wc = 0 /\ simpc = "idle"

FetchIdle ==
  /\ fpc = "idle" /\ ferr = "none" /\ columns = <<>> /\ weekNo = 0 /\ dataWeeks = 0
  /\ lastRects = <<>> /\ lastRows = <<>> /\ lastSlots = <<>> /\ grid = <<>>

ValIdle == vfile = <<>> /\ vpc = "idle" /\ exitCode = -1

NoFile == [exists |-> FALSE, content |-> <<>>]

RenderIdle ==
  /\ rframes = <<>> /\ style = <<>> /\ rpc = "idle" /\ rerr = "none" /\ parts = <<>>
  /\ keyTimes = <<>> /\ gk = 0 /\ outFile = NoFile /\ outFile0 = NoFile /\ writes = 0

PlayIdle == ppc = "idle" /\ tnow = 0 /\ shown = {}

\* ---- SpecStep: life_step applied to every matrix within the bounds ---------
InitStep ==
  /\ state \in Matrices(MaxRows, MaxCols)
  /\ result = <<>>
  /\ lpc = "input"
  /\ SimIdle /\ FetchIdle /\ ValIdle /\ RenderIdle /\ PlayIdle /\ mpc = "idle"

LifeStepCall ==
  /\ lpc = "input"
  /\ result' = life_step(state)
  /\ lpc' = "stepped"
  /\ UNCHANGED <<state, simVars, fetchVars, valVars, renderVars, playVars, mpc>>

\* The caller feeds the returned generation back in.
LifeStepAgain ==
  /\ lpc = "stepped"
  /\ state' = result
  /\ lpc' = "input"
  /\ UNCHANGED <<result, simVars, fetchVars, valVars, renderVars, playVars, mpc>>

NextStep == LifeStepCall \/ LifeStepAgain

SpecStep == InitStep /\ [][NextStep]_vars

\* ---- fetch_contributions_matrix (generate_svg.py:12-56) --------------------
\* An attribute of a <rect> as rect.get returns it: absent, a text that is no
\* number ("abc"), or a decimal numeral given by its value in tenths
\* ("15.9" is 159). A numeral whose tenths are a multiple of 10 is written
\* without a decimal point ("70" is 700).
NoAttr == [k |-> "none"]
TextAttr == [k |-> "text"]
NumAttr(t) == [k |-> "num", tenths |-> t]

\* int(x) of a float or of a quotient: rounding toward zero.
Trunc(a, b) == IF a >= 0 THEN a \div b ELSE -((-a) \div b)

\* int(float(y)): float fails on None (TypeError) and on text (ValueError).
FloatParses(a) == a.k = "num"
\* int(s) of a string: only an integer literal parses.
IntParses(a) == a.k = "num" /\ a.tenths % 10 = 0

\* y: absent, "abc", "0", "15.9", "70", "-10".
YAttrs == {NoAttr, TextAttr, NumAttr(0), NumAttr(159), NumAttr(700), NumAttr(-100)}
\* data-count and data-level: neither, level "2" alone, count "3" alone,
\* count "0" with level "2", count "abc".
CountAttrs ==
  { [count |-> NoAttr, level |-> NoAttr], [count |-> NoAttr, level |-> NumAttr(20)],
    [count |-> NumAttr(30), level |-> NoAttr], [count |-> NumAttr(0), level |-> NumAttr(20)],
    [count |-> TextAttr, level |-> NoAttr] }

Rects == { [y |-> y, count |-> a.count, level |-> a.level] : y \in YAttrs, a \in CountAttrs }

SeqsUpTo(S, n) == UNION { [1..l -> S] : l \in 0..n }

\* The <rect> lists a <g> can hold.
Weeks == SeqsUpTo(Rects, MaxRects)

\* Lines 41-46: the index yi of the i-th rect of rects (i from 1). The except
\* branch counts the rects of the group that compare equal to this one; two
\* tags are equal when their names, attributes and contents are.
RowIndex(rects, i) ==
  LET y == rects[i].y
  IN  IF FloatParses(y)
      THEN Trunc(Trunc(y.tenths, 10), RowPitch)
      ELSE Cardinality({ j \in 1..Len(rects) : rects[j] = rects[i] }) - 1

\* Line 47: the argument of int(...), data-count before data-level before "0".
CountText(rect) ==
  IF rect.count /= NoAttr THEN rect.count
  ELSE IF rect.level /= NoAttr THEN rect.level
  ELSE NumAttr(0)

\* Line 48, the subscript: a list of FetchRows items takes -FetchRows..FetchRows-1,
\* the negative indices counting from the end.
SlotInRange(yi) == -FetchRows <= yi /\ yi < FetchRows
Slot(yi) == IF yi >= 0 THEN yi ELSE yi + FetchRows

\* Lines 37-48: the loop over the rects of one group from the i-th on. acc is
\* [col, rows, slots, err]; col is indexed from 1, row yi of the code is
\* col[yi + 1].
RECURSIVE ParseRects(_, _, _)
ParseRects(rects, i, acc) ==
  IF i > Len(rects) \/ acc.err /= "none" THEN acc
  ELSE LET yi == RowIndex(rects, i)
           ct == CountText(rects[i])
           seen == [acc EXCEPT !.rows = Append(@, yi)]
       IN  IF ~IntParses(ct) THEN [seen EXCEPT !.err = "ValueError"]
           ELSE IF ~SlotInRange(yi) THEN [seen EXCEPT !.err = "IndexError"]
           ELSE ParseRects(rects, i + 1,
                  [seen EXCEPT !.col[Slot(yi) + 1] = IF ct.tenths > 0 THEN 1 ELSE 0,
                               !.slots = Append(@, Slot(yi))])

ParseColumn(rects) ==
  ParseRects(rects, 1, [col |-> [r \in 1..FetchRows |-> 0], rows |-> <<>>,
                        slots |-> <<>>, err |-> "none"])

\* Line 55: the row-major matrix of FetchRows rows.
Transpose(cs) ==
  [r \in 1..FetchRows |-> [c \in 1..Len(cs) |-> IF r <= Len(cs[c]) THEN cs[c][r] ELSE 0]]

InitFetch ==
  /\ fpc = "call" /\ ferr = "none" /\ columns = <<>> /\ weekNo = 0 /\ dataWeeks = 0
  /\ lastRects = <<>> /\ lastRows = <<>> /\ lastSlots = <<>> /\ grid = <<>>
  /\ LifeIdle /\ SimIdle /\ ValIdle /\ RenderIdle /\ PlayIdle /\ mpc = "idle"

\* Lines 17-18: requests.get or raise_for_status raises.
FetchRequestFails ==
  /\ fpc = "call"
  /\ fpc' = "raised" /\ ferr' = "NetworkError"
  /\ UNCHANGED <<columns, weekNo, dataWeeks, lastRects, lastRows, lastSlots, grid>>
  /\ UNCHANGED <<lifeVars, simVars, valVars, renderVars, playVars, mpc>>

\* Lines 20-23: the page holds no <svg>.
FetchNoSvg ==
  /\ fpc = "call"
  /\ fpc' = "raised" /\ ferr' = "RuntimeError: no svg"
  /\ UNCHANGED <<columns, weekNo, dataWeeks, lastRects, lastRows, lastSlots, grid>>
  /\ UNCHANGED <<lifeVars, simVars, valVars, renderVars, playVars, mpc>>

\* Lines 20-31: the page holds an <svg>; the loop over its groups starts.
FetchFoundSvg ==
  /\ fpc = "call"
  /\ fpc' = "weeks"
  /\ UNCHANGED <<ferr, columns, weekNo, dataWeeks, lastRects, lastRows, lastSlots, grid>>
  /\ UNCHANGED <<lifeVars, simVars, valVars, renderVars, playVars, mpc>>

\* Lines 33-49: one iteration of "for g in weeks" over a group holding rects.
ParseWeekOf(rects) ==
  /\ fpc = "weeks"
  /\ weekNo < MaxGroups
  /\ weekNo' = weekNo + 1
  /\ lastRects' = rects
  /\ IF rects = <<>>
     THEN /\ UNCHANGED <<fpc, ferr, columns, dataWeeks>>
          /\ lastRows' = <<>> /\ lastSlots' = <<>>
     ELSE LET p == ParseColumn(rects)
          IN  /\ dataWeeks' = dataWeeks + 1
              /\ lastRows' = p.rows
              /\ lastSlots' = p.slots
              /\ IF p.err = "none"
                 THEN columns' = Append(columns, p.col) /\ UNCHANGED <<fpc, ferr>>
                 ELSE fpc' = "raised" /\ ferr' = p.err /\ UNCHANGED columns
  /\ UNCHANGED grid
  /\ UNCHANGED <<lifeVars, simVars, valVars, renderVars, playVars, mpc>>

ParseWeek == \E rects \in Weeks : ParseWeekOf(rects)

\* Lines 50-56: the groups are exhausted.
FetchFinish ==
  /\ fpc = "weeks"
  /\ IF columns = <<>>
     THEN fpc' = "raised" /\ ferr' = "RuntimeError: no columns" /\ UNCHANGED grid
     ELSE fpc' = "returned" /\ grid' = Transpose(columns) /\ UNCHANGED ferr
  /\ UNCHANGED <<columns, weekNo, dataWeeks, lastRects, lastRows, lastSlots>>
  /\ UNCHANGED <<lifeVars, simVars, valVars, renderVars, playVars, mpc>>

NextFetch == FetchRequestFails \/ FetchNoSvg \/ FetchFoundSvg \/ ParseWeek \/ FetchFinish

SpecFetch == InitFetch /\ [][NextFetch]_vars

\* ---- C9 ----------------------------------------------------------------
\* C9: whatever offsets and count/level values the leaf shapes carry, the
\* fetch either returns a binary matrix of exactly 7 rows and N >= 1 columns,
\* N the number of groups with a leaf shape, or fails with a network error or
\* one of the two parse errors; and every shape is written to its decoded
\* row, which lies in 0..6.
C9_FetchOutcomes ==
  /\ fpc = "raised" =>
       ferr \in {"NetworkError", "RuntimeError: no svg", "RuntimeError: no columns"}
  /\ fpc = "returned" =>
       /\ Len(grid) = 7
       /\ Len(grid[1]) >= 1 /\ Len(grid[1]) = dataWeeks
       /\ \A r \in 1..7 : Len(grid[r]) = Len(grid[1]) /\ \A c \in 1..Len(grid[r]) : grid[r][c] \in {0, 1}
  /\ \A i \in 1..Len(lastSlots) : lastSlots[i] = lastRows[i] /\ lastRows[i] \in 0..6

\* ---- C10 ---------------------------------------------------------------
\* C10: a leaf shape whose offset is missing or unparsable gets the row equal
\* to its position in its group, counting from 0; one whose offset parses
\* gets the offset divided by the row pitch of 10, rounded down. Stated of the
\* shapes of the last group that were assigned a row.
C10_RowDecode ==
  \A i \in 1..Len(lastSlots) :
    LET y == lastRects[i].y
    IN  IF y.k = "num" THEN lastRows[i] = y.tenths \div 100
                       ELSE lastRows[i] = i - 1

\* ---- validate_svg.main (validate_svg.py:6-32) ------------------------------
\* A text is the sequence of its characters. An attribute read with
\* root.get is NoAttr (None) or StrAttr of its text.
StrAttr(t) == [k |-> "str", s |-> t]

\* str.lower on the characters the tags of the model use.
LowerChar(ch) ==
  CASE ch = "S" -> "s" [] ch = "V" -> "v" [] ch = "G" -> "g" [] OTHER -> ch
Lower(t) == [i \in 1..Len(t) |-> LowerChar(t[i])]

\* str.endswith
EndsWith(t, suffix) ==
  /\ Len(t) >= Len(suffix)
  /\ SubSeq(t, Len(t) - Len(suffix) + 1, Len(t)) = suffix

\* t.split('}')[-1]: what follows the last '}' of t, all of t without one.
RECURSIVE LastPart(_)
LastPart(t) ==
  IF \E i \in 1..Len(t) : t[i] = "}"
  THEN LastPart(Tail(t))
  ELSE t

\* not w
Falsy(a) == IF a = NoAttr THEN TRUE ELSE a.s = <<>>

SvgText == <<"s", "v", "g">>
AnimateText == <<"a", "n", "i", "m", "a", "t", "e">>
GText == <<"g">>
RectText == <<"r", "e", "c", "t">>
\* ElementTree writes the tag of an element in a namespace as "{uri}local";
\* the SVG namespace uri is shortened to "w3/svg".
SvgNs == <<"{", "w", "3", "/", "s", "v", "g", "}">>

\* Line 14: root.tag.lower().endswith('svg')
RootIsSvg(f) == EndsWith(Lower(f.root), SvgText)

\* Lines 26-27: the tags of root.iter(), the root first, namespace removed.
HasAnimate(f) ==
  LET tags == <<f.root>> \o f.inner
  IN  \E i \in 1..Len(tags) : LastPart(tags[i]) = AnimateText

\* main(path). f.parsed is whether ET.parse(path) returned; a missing file, an
\* unreadable one and text that is not well-formed all raise inside the try.
validate_main(f) ==
  IF ~f.parsed THEN 2
  ELSE IF RootIsSvg(f)
       THEN IF Falsy(f.width) \/ Falsy(f.height) THEN 3
            ELSE IF ~HasAnimate(f) THEN 5
            ELSE 0
       ELSE 4

Unparsed == [parsed |-> FALSE, root |-> <<>>, width |-> NoAttr, height |-> NoAttr, inner |-> <<>>]

RootNames ==
  { SvgText, <<"S", "V", "G">>, <<"x", "s", "v", "g">>, GText, <<"h", "t", "m", "l">>,
    AnimateText }
InnerNames == { GText, AnimateText, RectText }
WithNs(names) == names \cup { SvgNs \o n : n \in names }
SizeAttrs == { NoAttr, StrAttr(<<>>), StrAttr(<<"1", "0">>) }

\* The files the validator is run on: one that does not parse, and the trees
\* of the documents that do.
Files ==
  {Unparsed} \cup
  [parsed : {TRUE}, root : WithNs(RootNames), width : SizeAttrs, height : SizeAttrs,
   inner : SeqsUpTo(WithNs(InnerNames), MaxInner)]

InitValidate ==
  /\ vfile \in Files
  /\ vpc = "call"
  /\ exitCode = -1
  /\ LifeIdle /\ SimIdle /\ FetchIdle /\ RenderIdle /\ PlayIdle /\ mpc = "idle"

ValidateMain ==
  /\ vpc = "call"
  /\ exitCode' = validate_main(vfile)
  /\ vpc' = "returned"
  /\ UNCHANGED vfile
  /\ UNCHANGED <<lifeVars, simVars, fetchVars, renderVars, playVars, mpc>>

NextValidate == ValidateMain

SpecValidate == InitValidate /\ [][NextValidate]_vars

\* ---- C5 ----------------------------------------------------------------
\* The root is the svg root: its local name, the namespace put aside, is svg.
RootIsSvgByLocalName(f) == LastPart(f.root) = SvgText

\* C5: the validator returns exactly one exit code, chosen by the first
\* failing check: 2 if the file does not parse, else 4 if the root is not the
\* svg root, else 3 if the root lacks a non-empty width or height, else 5 if
\* no animate element occurs in the tree, and 0 only when all four pass.
C5_ExitCodeOrder ==
  vpc = "returned" =>
    exitCode = IF ~vfile.parsed THEN 2
               ELSE IF ~RootIsSvgByLocalName(vfile) THEN 4
               ELSE IF Falsy(vfile.width) \/ Falsy(vfile.height) THEN 3
               ELSE IF ~HasAnimate(vfile) THEN 5
               ELSE 0

\* ---- C6 ----------------------------------------------------------------
\* C6: tag names are compared by local name only: a well-formed document whose
\* root's local name is not svg gets exit code 4, whatever its attributes and
\* descendants are.
C6_NonSvgRootRejected ==
  (vpc = "returned" /\ vfile.parsed /\ LastPart(vfile.root) /= SvgText) => exitCode = 4

\* ---- render_animated_svg (generate_svg.py:95-145) --------------------------
Quote == "\""

\* alive_color and dead_color are written into fill="..." as given.
\* "#2e", a double quote alone, and "a<".
Colors == { <<"#", "2", "e">>, <<Quote>>, <<"a", "<">> }
DefaultColor == <<"#", "2", "e">>

\* os.path.dirname(out_path): "assets" for assets/life.svg, "" for life.svg.
OutDirs == { <<"a", "s", "s", "e", "t", "s">>, <<>> }

Styles ==
  [cell : {DefaultCell}, gap : {DefaultGap}, alive : Colors, dead : {DefaultColor},
   durMs : {DefaultFrameMs}, dir : OutDirs]

\* The frames handed to render: none, or up to MaxFrames of one shape; the
\* shapes are [] (no row), [[]] (a row without columns) and one row of up to
\* RenderCols cells.
FramesOfShape(ms) == SeqsUpTo(ms, MaxFrames)
FrameSeqs ==
  FramesOfShape({<<>>}) \cup FramesOfShape({<< <<>> >>})
    \cup UNION { FramesOfShape([1..1 -> [1..nc -> Cells]]) : nc \in 1..RenderCols }

\* A file some earlier program left at out_path; it is not markup.
OldFile == [exists |-> TRUE, content |-> << [t |-> "other"] >>]

\* Lines 107-108: rect(x, y, fill).
rect(x, y, fill) == [t |-> "rect", x |-> x, y |-> y, fill |-> fill]

\* Lines 104-105.
Canvas(n, st) == n * (st.cell + st.gap) - st.gap

\* Lines 114-119: one rect per cell, row by row.
BgRects(rows, cols, st) ==
  [i \in 1..(rows * cols) |->
     rect(((i - 1) % cols) * (st.cell + st.gap), ((i - 1) \div cols) * (st.cell + st.gap),
          st.dead)]

\* Lines 128-134: a rect per live cell of the frame, row by row.
RECURSIVE AliveRects(_, _, _, _, _)
AliveRects(frame, rows, cols, st, i) ==
  IF i > rows * cols THEN <<>>
  ELSE LET r == (i - 1) \div cols
           c == (i - 1) % cols
           rest == AliveRects(frame, rows, cols, st, i + 1)
       IN  IF frame[r + 1][c + 1] = 1
           THEN <<rect(c * (st.cell + st.gap), r * (st.cell + st.gap), st.alive)>> \o rest
           ELSE rest

\* Lines 123-124: i / len(frames) written with six decimals, trailing zeros
\* removed: the nearest millionth, ties to even.
KeyTime(i, n) ==
  LET q == (i * 1000000) \div n
      rem == (i * 1000000) % n
  IN  IF 2 * rem > n THEN q + 1
      ELSE IF 2 * rem < n THEN q
      ELSE IF q % 2 = 0 THEN q ELSE q + 1

key_times(n) == [i \in 1..(n + 1) |-> KeyTime(i - 1, n)]

\* Line 135: values, one per key time; entry i of the code is [i + 1].
\* OpacityValuesUpTo keeps a group opaque up to its own index, which the code
\* does not do.
OpacityValuesUpTo(k, n) == [i \in 1..(n + 1) |-> IF i - 1 <= k THEN 1 ELSE 0]

OpacityValues(k, n) == [i \in 1..(n + 1) |-> IF i - 1 = k THEN 1 ELSE 0]

\* Lines 102 and 138: total_dur, written with three decimals: milliseconds.
TotalDur(st, n) == st.durMs * n

\* Lines 97-124: the empty check, the header, the background, the key times.
RenderCall ==
  /\ rpc = "call"
  /\ IF rframes = <<>>
     THEN /\ rpc' = "raised" /\ rerr' = "ValueError"
          /\ UNCHANGED <<parts, keyTimes, gk>>
     ELSE LET rows == Len(rframes[1])
              cols == IF rows > 0 THEN Len(rframes[1][1]) ELSE 0
          IN  /\ parts' = << [t |-> "xmldecl"],
                             [t |-> "svg", width |-> Canvas(cols, style),
                              height |-> Canvas(rows, style)],
                             [t |-> "bg", cells |-> BgRects(rows, cols, style)] >>
              /\ keyTimes' = key_times(Len(rframes))
              /\ gk' = 0
              /\ rpc' = "groups"
              /\ UNCHANGED rerr
  /\ UNCHANGED <<rframes, style, outFile, outFile0, writes>>
  /\ UNCHANGED <<lifeVars, simVars, fetchVars, valVars, playVars, mpc>>

\* Lines 127-139: one iteration of "for k, frame in enumerate(frames)".
RenderGroup ==
  /\ rpc = "groups"
  /\ gk < Len(rframes)
  /\ LET rows == Len(rframes[1])
         cols == IF rows > 0 THEN Len(rframes[1][1]) ELSE 0
     IN  parts' = Append(parts,
           [t |-> "frame", k |-> gk, opacity |-> IF gk = 0 THEN 1 ELSE 0,
            cells |-> AliveRects(rframes[gk + 1], rows, cols, style, 1),
            dur |-> TotalDur(style, Len(rframes)),
            keyTimes |-> keyTimes,
            values |-> OpacityValues(gk, Len(rframes))])
  /\ gk' = gk + 1
  /\ UNCHANGED <<rframes, style, rpc, rerr, keyTimes, outFile, outFile0, writes>>
  /\ UNCHANGED <<lifeVars, simVars, fetchVars, valVars, playVars, mpc>>

\* Line 141.
RenderClose ==
  /\ rpc = "groups"
  /\ gk = Len(rframes)
  /\ parts' = Append(parts, [t |-> "endsvg"])
  /\ rpc' = "makedirs"
  /\ UNCHANGED <<rframes, style, rerr, keyTimes, gk, outFile, outFile0, writes>>
  /\ UNCHANGED <<lifeVars, simVars, fetchVars, valVars, playVars, mpc>>

\* Line 143: os.makedirs(os.path.dirname(out_path), exist_ok=True); makedirs
\* raises FileNotFoundError for the empty path.
RenderMakeDirs ==
  /\ rpc = "makedirs"
  /\ IF style.dir = <<>>
     THEN rpc' = "raised" /\ rerr' = "FileNotFoundError"
     ELSE rpc' = "open" /\ UNCHANGED rerr
  /\ UNCHANGED <<rframes, style, parts, keyTimes, gk, outFile, outFile0, writes>>
  /\ UNCHANGED <<lifeVars, simVars, fetchVars, valVars, playVars, mpc>>

\* Line 144: open(out_path, "w") creates the file or truncates it.
\* RenderOpenEarly opens the file before parts is assembled, which the code
\* does not do.
RenderOpenEarly ==
  /\ rpc = "call"
  /\ outFile /= [exists |-> TRUE, content |-> <<>>]
  /\ outFile' = [exists |-> TRUE, content |-> <<>>]
  /\ UNCHANGED <<rframes, style, rpc, rerr, parts, keyTimes, gk, outFile0, writes>>
  /\ UNCHANGED <<lifeVars, simVars, fetchVars, valVars, playVars, mpc>>

RenderOpen ==
  /\ rpc = "open"
  /\ outFile' = [exists |-> TRUE, content |-> <<>>]
  /\ rpc' = "write"
  /\ UNCHANGED <<rframes, style, rerr, parts, keyTimes, gk, outFile0, writes>>
  /\ UNCHANGED <<lifeVars, simVars, fetchVars, valVars, playVars, mpc>>

\* Line 145: f.write("\n".join(parts)), and the file is closed.
RenderWrite ==
  /\ rpc = "write"
  /\ outFile' = [outFile EXCEPT !.content = outFile.content \o parts]
  /\ writes' = writes + 1
  /\ rpc' = "returned"
  /\ UNCHANGED <<rframes, style, rerr, parts, keyTimes, gk, outFile0>>
  /\ UNCHANGED <<lifeVars, simVars, fetchVars, valVars, playVars, mpc>>

\* ---- the written file read back by ET.parse (validate_svg.py:8-9) ----------
\* The text fill="<value>"/> scanned from the character after the opening
\* quote: the first double quote ends the value, no '<' and no '&' may come
\* before it, and "/>" must follow it. (White space and a further attribute
\* could follow as well; no text of Colors contains any.)
RECURSIVE FillScans(_)
FillScans(text) ==
  IF text = <<>> THEN FALSE
  ELSE IF Head(text) = Quote THEN Tail(text) = <<"/", ">">>
  ELSE IF Head(text) \in {"<", "&"} THEN FALSE
  ELSE FillScans(Tail(text))

RectParses(e) == FillScans(e.fill \o <<Quote, "/", ">">>)

PartParses(part) ==
  IF part.t \in {"bg", "frame"}
  THEN \A i \in 1..Len(part.cells) : RectParses(part.cells[i])
  ELSE part.t \in {"xmldecl", "svg", "endsvg"}

\* str(n) of an integer.
DigitChars == <<"0", "1", "2", "3", "4", "5", "6", "7", "8", "9">>
RECURSIVE NatText(_)
NatText(n) == IF n < 10 THEN <<DigitChars[n + 1]>> ELSE Append(NatText(n \div 10), DigitChars[(n % 10) + 1])
IntText(n) == IF n < 0 THEN <<"-">> \o NatText(-n) ELSE NatText(n)

\* The elements inside the root in document order, as root.iter() gives them
\* after the root; xmlns puts every element in the SVG namespace.
RECURSIVE InnerTags(_, _)
InnerTags(content, i) ==
  IF i > Len(content) THEN <<>>
  ELSE LET part == content[i]
           rects == [j \in 1..Len(part.cells) |-> SvgNs \o RectText]
       IN  (CASE part.t = "bg" -> <<SvgNs \o GText>> \o rects
              [] part.t = "frame" -> <<SvgNs \o GText>> \o rects \o <<SvgNs \o AnimateText>>
              [] OTHER -> <<>>)
           \o InnerTags(content, i + 1)

\* ET.parse(path): a missing file, an empty one and one that is not
\* well-formed raise; the documents render writes open with the declaration
\* and the root's start tag and close with its end tag.
XmlParse(file) ==
  IF ~file.exists \/ Len(file.content) < 3 THEN Unparsed
  ELSE IF \/ file.content[1].t /= "xmldecl"
          \/ file.content[2].t /= "svg"
          \/ file.content[Len(file.content)].t /= "endsvg"
          \/ \E i \in 1..Len(file.content) : ~PartParses(file.content[i])
  THEN Unparsed
  ELSE [parsed |-> TRUE,
        root |-> SvgNs \o SvgText,
        width |-> StrAttr(IntText(file.content[2].width)),
        height |-> StrAttr(IntText(file.content[2].height)),
        inner |-> InnerTags(file.content, 3)]

\* validate_svg.py run on out_path after the generator ended.
ValidateOutput ==
  /\ rpc \in {"returned", "raised"}
  /\ vpc = "call"
  /\ vfile' = XmlParse(outFile)
  /\ exitCode' = validate_main(XmlParse(outFile))
  /\ vpc' = "returned"
  /\ UNCHANGED <<lifeVars, simVars, fetchVars, renderVars, playVars, mpc>>

\* ---- a viewer playing the written document ---------------------------------
\* The <animate> of each frame group (lines 138-139): calcMode="discrete",
\* repeatCount="indefinite"; at time t of the cycle the value in force is the
\* one of the last key time not after t.
FrameGroups(file) == SelectSeq(file.content, LAMBDA part : part.t = "frame")

ValueAt(g, t) ==
  LET idx == CHOOSE i \in 1..Len(g.keyTimes) :
               /\ g.keyTimes[i] <= t
               /\ \A j \in 1..Len(g.keyTimes) : g.keyTimes[j] <= t => j <= i
  IN  g.values[idx]

Opaque(file, t) ==
  LET gs == FrameGroups(file)
  IN  { gs[i].k : i \in { j \in 1..Len(gs) : ValueAt(gs[j], t) = 1 } }

\* The instants the viewer is observed at: every key time of the first group,
\* the instant after it, the instant before the next one and the middle.
Instants(file) ==
  LET kt == FrameGroups(file)[1].keyTimes
  IN  { t \in UNION { {kt[i], kt[i] + 1, (kt[i] + kt[i + 1]) \div 2, kt[i + 1] - 1} :
                      i \in 1..(Len(kt) - 1) } : 0 <= t /\ t < 1000000 }

PlayerStart ==
  /\ rpc = "returned"
  /\ ppc = "idle"
  /\ XmlParse(outFile).parsed
  /\ ppc' = "playing"
  /\ tnow' = 0
  /\ shown' = Opaque(outFile, 0)
  /\ UNCHANGED <<lifeVars, simVars, fetchVars, valVars, renderVars, mpc>>

\* Time passes to the next instant; after the last one the cycle restarts.
PlayerTick ==
  /\ ppc = "playing"
  /\ LET later == { t \in Instants(outFile) : t > tnow }
         next == IF later = {} THEN 0
                 ELSE CHOOSE t \in later : \A u \in later : t <= u
     IN  /\ tnow' = next
         /\ shown' = Opaque(outFile, next)
  /\ UNCHANGED ppc
  /\ UNCHANGED <<lifeVars, simVars, fetchVars, valVars, renderVars, mpc>>

InitRender ==
  /\ rframes \in FrameSeqs
  /\ style \in Styles
  /\ outFile \in {NoFile, OldFile}
  /\ outFile0 = outFile
  /\ rpc = "call" /\ rerr = "none" /\ parts = <<>> /\ keyTimes = <<>> /\ gk = 0
  /\ writes = 0
  /\ vfile = <<>> /\ vpc = "call" /\ exitCode = -1
  /\ PlayIdle /\ LifeIdle /\ SimIdle /\ FetchIdle /\ mpc = "idle"

NextRender ==
  \/ RenderCall \/ RenderGroup \/ RenderClose \/ RenderMakeDirs \/ RenderOpen
  \/ RenderWrite \/ ValidateOutput \/ PlayerStart \/ PlayerTick

SpecRender == InitRender /\ [][NextRender]_vars

\* ---- main of generate_svg.py (lines 148-163) -------------------------------
\* The groups of the pages the pipeline is run on: rects with y "0" or "70" or
\* none, with data-count "3", "abc" or no count at all.
MainRectSet ==
  { r \in Rects : /\ r.y \in {NoAttr, NumAttr(0), NumAttr(700)}
                  /\ r.level = NoAttr
                  /\ r.count \in {NoAttr, NumAttr(30), TextAttr} }
MainWeeks == SeqsUpTo(MainRectSet, MainRects)

MainStyles == { st \in Styles : st.alive = DefaultColor }

\* Lines 149-160: the arguments are parsed and fetch_contributions_matrix is
\* called.
InitMain ==
  /\ mpc = "fetch"
  /\ fpc = "call" /\ ferr = "none" /\ columns = <<>> /\ weekNo = 0 /\ dataWeeks = 0
  /\ lastRects = <<>> /\ lastRows = <<>> /\ lastSlots = <<>> /\ grid = <<>>
  /\ steps \in 0..MainSteps
  /\ heap = <<>> /\ seed = 0 /\ seedVal = <<>> /\ frames = <<>>
  /\ cur = 0 /\ nxt = 0 /\ iter = 0 /\ wr = 0 /\ wc = 0 /\ simpc = "idle"
  /\ style \in MainStyles
  /\ outFile \in {NoFile, OldFile}
  /\ outFile0 = outFile
  /\ rframes = <<>> /\ rpc = "idle" /\ rerr = "none" /\ parts = <<>> /\ keyTimes = <<>>
  /\ gk = 0 /\ writes = 0
  /\ LifeIdle /\ ValIdle /\ PlayIdle

MainParseWeek == \E rects \in MainWeeks : ParseWeekOf(rects)

\* Lines 161-162: frames = simulate(grid, args.steps), and render_animated_svg
\* is called with them.
MainSimulate ==
  /\ mpc = "fetch"
  /\ fpc = "returned"
  /\ rframes' = simulate(grid, steps)
  /\ rpc' = "call"
  /\ mpc' = "render"
  /\ UNCHANGED <<style, rerr, parts, keyTimes, gk, outFile, outFile0, writes>>
  /\ UNCHANGED <<lifeVars, simVars, fetchVars, valVars, playVars>>

\* Line 163: print(f"Wrote {args.out}").
MainPrint ==
  /\ mpc = "render"
  /\ rpc = "returned"
  /\ mpc' = "done"
  /\ UNCHANGED <<lifeVars, simVars, fetchVars, valVars, renderVars, playVars>>

\* An exception of a callee is not caught: the run ends with a traceback.
MainAbort ==
  /\ \/ mpc = "fetch" /\ fpc = "raised"
     \/ mpc = "render" /\ rpc = "raised"
  /\ mpc' = "aborted"
  /\ UNCHANGED <<lifeVars, simVars, fetchVars, valVars, renderVars, playVars>>

NextMain ==
  \/ FetchRequestFails \/ FetchNoSvg \/ FetchFoundSvg \/ MainParseWeek \/ FetchFinish
  \/ MainSimulate
  \/ RenderCall \/ RenderGroup \/ RenderClose \/ RenderMakeDirs \/ RenderOpen \/ RenderWrite
  \/ MainPrint \/ MainAbort

SpecMain == InitMain /\ [][NextMain]_vars

\* ---- simulate over list objects (generate_svg.py:86-92, 75-83) -------------
\* A matrix is an outer list object holding the addresses of its row objects.
Deref(h, a) == [r \in 1..Len(h[a]) |-> h[h[a][r]]]

\* Every object a matrix is made of: the outer list and its rows.
ObjectsOf(h, a) == {a} \cup { h[a][r] : r \in 1..Len(h[a]) }

\* The heap holding one matrix m with its rows as separate objects; the
\* matrix itself is the last object.
HeapOf(m) == m \o << [r \in 1..Len(m) |-> r] >>

InitSim ==
  /\ \E m \in Matrices(SimRows, SimCols) :
       /\ heap = HeapOf(m)
       /\ seed = Len(m) + 1
       /\ seedVal = m
  /\ steps \in 0..MaxSteps
  /\ frames = <<>> /\ cur = 0 /\ nxt = 0 /\ iter = 0 /\ wr = 0 /\ wc = 0
  /\ simpc = "call"
  /\ LifeIdle /\ FetchIdle /\ ValIdle /\ RenderIdle /\ PlayIdle /\ mpc = "idle"

\* Lines 87-88: frames = [state]; cur = state.
SimulateCall ==
  /\ simpc = "call"
  /\ frames' = <<seed>>
  /\ cur' = seed
  /\ iter' = 0
  /\ simpc' = "loop"
  /\ UNCHANGED <<heap, seed, seedVal, steps, nxt, wr, wc, lifeVars, fetchVars, valVars, renderVars, playVars, mpc>>

\* Line 89, the loop entered once more, and lines 60-61 and 75 of the
\* life_step it calls: nxt = [[0] * cols for _ in range(rows)], rows new
\* row objects and a new outer list. StepAllocInPlace is the step without the
\* allocation (nxt = state), which the code does not take.
StepAllocInPlace ==
  /\ simpc = "loop"
  /\ iter < steps - 1
  /\ nxt' = cur
  /\ wr' = 1 /\ wc' = 1
  /\ simpc' = "cells"
  /\ UNCHANGED <<heap, seed, seedVal, steps, frames, cur, iter, lifeVars, fetchVars, valVars, renderVars, playVars, mpc>>

StepAlloc ==
  /\ simpc = "loop"
  /\ iter < steps - 1
  /\ LET rows == Len(heap[cur])
         cols == IF rows > 0 THEN Len(heap[heap[cur][1]]) ELSE 0
         base == Len(heap)
     IN  /\ heap' = heap \o [r \in 1..rows |-> [c \in 1..cols |-> 0]]
                         \o << [r \in 1..rows |-> base + r] >>
         /\ nxt' = base + rows + 1
  /\ wr' = 1 /\ wc' = 1
  /\ simpc' = "cells"
  /\ UNCHANGED <<seed, seedVal, steps, frames, cur, iter, lifeVars, fetchVars, valVars, renderVars, playVars, mpc>>

\* Lines 76-82, one iteration of the inner loop: nxt[r][c] is assigned from
\* state[r][c] and neighbors(r, c), both read from the list objects as they
\* are now.
StepCell ==
  /\ simpc = "cells"
  /\ LET rows == Len(heap[cur])
         cols == IF rows > 0 THEN Len(heap[heap[cur][1]]) ELSE 0
         st   == Deref(heap, cur)
         row  == heap[nxt][wr]
     IN  /\ wr <= rows /\ cols > 0
         /\ heap' = [heap EXCEPT ![row][wc] = nextCell(st, rows, cols, wr, wc)]
         /\ IF wc < cols THEN wc' = wc + 1 /\ wr' = wr
                         ELSE wc' = 1 /\ wr' = wr + 1
  /\ UNCHANGED <<seed, seedVal, steps, frames, cur, nxt, iter, simpc, lifeVars, fetchVars, valVars, renderVars, playVars, mpc>>

\* Line 83 and lines 90-91: life_step returns nxt; cur = nxt;
\* frames.append(cur). StepReturnStale appends without advancing cur, which
\* the code does not do.
StepReturnStale ==
  /\ simpc = "cells"
  /\ LET rows == Len(heap[cur])
         cols == IF rows > 0 THEN Len(heap[heap[cur][1]]) ELSE 0
     IN  wr > rows \/ cols = 0
  /\ frames' = Append(frames, nxt)
  /\ iter' = iter + 1
  /\ simpc' = "loop"
  /\ UNCHANGED <<heap, seed, seedVal, steps, cur, nxt, wr, wc, lifeVars, fetchVars, valVars, renderVars, playVars, mpc>>

StepReturn ==
  /\ simpc = "cells"
  /\ LET rows == Len(heap[cur])
         cols == IF rows > 0 THEN Len(heap[heap[cur][1]]) ELSE 0
     IN  wr > rows \/ cols = 0
  /\ cur' = nxt
  /\ frames' = Append(frames, nxt)
  /\ iter' = iter + 1
  /\ simpc' = "loop"
  /\ UNCHANGED <<heap, seed, seedVal, steps, nxt, wr, wc, lifeVars, fetchVars, valVars, renderVars, playVars, mpc>>

\* Line 92: the loop is exhausted, return frames.
SimulateReturn ==
  /\ simpc = "loop"
  /\ ~(iter < steps - 1)
  /\ simpc' = "done"
  /\ UNCHANGED <<heap, seed, seedVal, steps, frames, cur, nxt, iter, wr, wc, lifeVars, fetchVars, valVars, renderVars, playVars, mpc>>

NextSim == SimulateCall \/ StepAlloc \/ StepCell \/ StepReturn \/ SimulateReturn

SpecSim == InitSim /\ [][NextSim]_vars

\* ---- C2 ----------------------------------------------------------------

\* C2: for a step count N >= 1, simulate returns exactly N frames, frame 0
\* equal to the input matrix and frame i equal to life_step applied i times.
C2_SimulateFrames ==
  (simpc = "done" /\ steps >= 1) =>
    /\ Len(frames) = steps
    /\ Deref(heap, frames[1]) = seedVal
    /\ \A i \in 1..(steps - 1) : Deref(heap, frames[i + 1]) = Generation(seedVal, i)

\* Three frames that all differ: the population changes twice.
C2_Witness ==
  /\ simpc = "done" /\ steps = 3 /\ Len(frames) = 3
  /\ Deref(heap, frames[1]) /= Deref(heap, frames[2])
  /\ Deref(heap, frames[2]) /= Deref(heap, frames[3])

\* ---- C3 ----------------------------------------------------------------
FrameObjects(h, fs) == UNION { ObjectsOf(h, fs[i]) : i \in 1..Len(fs) }

\* No list object is part of two frames, and no frame is listed twice.
FramesSeparate(h, fs) ==
  \A i, j \in 1..Len(fs) :
    i /= j => ObjectsOf(h, fs[i]) \cap ObjectsOf(h, fs[j]) = {}

\* C3: no step of simulate or life_step changes the caller's matrix or a frame
\* already in the sequence (the matrix life_step was given among them), and
\* the frames are pairwise distinct objects with no row shared.
C3_FramesStable ==
  [][ /\ \A a \in ObjectsOf(heap, seed) \cup FrameObjects(heap, frames) :
            heap'[a] = heap[a]
      /\ \A i \in 1..Len(frames) : frames'[i] = frames[i]
      /\ FramesSeparate(heap', frames') ]_vars

\* life_step has written a live cell into the third frame while the first
\* two frames, one of them with live cells, are in the sequence.
C3_Witness ==
  /\ simpc = "cells" /\ Len(frames) = 2 /\ wr = 2
  /\ \E c \in 1..Len(heap[heap[nxt][1]]) : heap[heap[nxt][1]][c] = 1
  /\ Deref(heap, frames[1]) /= Deref(heap, frames[2])

\* ---- C4 ----------------------------------------------------------------
\* While a viewer plays the document: every frame group carries the same
\* duration and key times, and the one opaque group is the group k whose
\* keyframe interval [keyTimes[k], keyTimes[k+1]) holds the present time.
OneFrameShown ==
  ppc = "playing" =>
    LET gs == FrameGroups(outFile)
        n == Len(gs)
    IN  /\ n = Len(rframes) /\ n >= 1
        /\ \A i \in 1..n :
             /\ gs[i].k = i - 1
             /\ gs[i].dur = gs[1].dur
             /\ gs[i].keyTimes = gs[1].keyTimes
        /\ Cardinality(shown) = 1
        /\ \A k \in 0..(n - 1) :
             (gs[1].keyTimes[k + 1] <= tnow /\ tnow < gs[1].keyTimes[k + 2]) => shown = {k}

\* From one instant to the next the shown frame stays or is followed by the
\* next one, frame 0 following the last.
NextFrameShown ==
  (ppc = "playing" /\ ppc' = "playing") =>
    \E k \in 0..(Len(rframes) - 1) :
      /\ shown = {k}
      /\ shown' = {k} \/ shown' = {(k + 1) % Len(rframes)}

\* C4: in a document rendered from F >= 1 frames all F groups share the
\* duration and the key times, exactly one group is opaque at any instant of
\* the repeating cycle, group k throughout the k-th keyframe interval, so that
\* the frames show in the order 0, 1, ..., F-1 and then again from 0.
C4_FlipBook == [](OneFrameShown) /\ [][NextFrameShown]_vars

\* The last instant of a cycle of three frames: the third frame is shown.
C4_Witness ==
  /\ ppc = "playing" /\ Len(rframes) = 3
  /\ tnow = 999999 /\ shown = {2}

\* ---- C7 ----------------------------------------------------------------
\* C7: for every non-empty frame sequence and every style configuration the
\* document render has written is accepted by the validator with exit code 0.
C7_RoundTrip ==
  (vpc = "returned" /\ rpc = "returned" /\ Len(rframes) >= 1) => exitCode = 0

\* ---- C8 ----------------------------------------------------------------
\* parts holds the whole document for the frames: declaration, root start
\* tag, background, one group per frame in order, root end tag.
DocumentComplete ==
  /\ Len(parts) = Len(rframes) + 4
  /\ parts[1].t = "xmldecl" /\ parts[2].t = "svg" /\ parts[3].t = "bg"
  /\ \A k \in 0..(Len(rframes) - 1) : parts[4 + k].t = "frame" /\ parts[4 + k].k = k
  /\ parts[Len(parts)].t = "endsvg"

\* C8: in every run of the pipeline the output file is written at most once,
\* it is created, truncated or written only after the fetch returned a
\* matrix, the simulation returned its frames and the whole document was
\* assembled, and a run that aborts leaves the file as it was.
C8_WriteOnlyAfterSuccess ==
  /\ writes <= 1
  /\ (outFile /= outFile0 \/ writes > 0) =>
       /\ fpc = "returned" /\ ferr = "none" /\ rerr = "none"
       /\ rframes /= <<>> /\ rframes = simulate(grid, steps)
       /\ DocumentComplete
  /\ writes = 1 => outFile = [exists |-> TRUE, content |-> parts]
  /\ mpc = "aborted" => (outFile = outFile0 /\ writes = 0)

\* A finished run that replaced an older file by a document of two frames.
C8_Witness ==
  /\ mpc = "done" /\ outFile0 = OldFile
  /\ Len(rframes) = 2 /\ writes = 1 /\ outFile.content = parts

\* A run that aborted in the fetch with an older file in place.
C8_WitnessAbort ==
  /\ mpc = "aborted" /\ ferr = "NetworkError" /\ outFile0 = OldFile

\* ---- C1 ----------------------------------------------------------------
\* The Moore neighbourhood of (r, c) as a set of positions inside the matrix.
MooreInside(m, r, c) ==
  { p \in (1..NumRows(m)) \X (1..NumCols(m)) :
      /\ p /= <<r, c>>
      /\ p[1] - r \in {-1, 0, 1}
      /\ p[2] - c \in {-1, 0, 1} }

LiveAround(m, r, c) == Cardinality({ p \in MooreInside(m, r, c) : m[p[1]][p[2]] = 1 })

\* C1: for every rectangular binary matrix (zero rows and zero columns
\* included) life_step returns a matrix of the same shape whose cell (r, c) is
\* 1 exactly when the input cell is alive with 2 or 3 live neighbours, or dead
\* with exactly 3, positions outside the matrix counting as 0.
C1_LifeStepRule ==
  lpc = "stepped" =>
    /\ Len(result) = Len(state)
    /\ \A r \in 1..Len(state) :
         /\ Len(result[r]) = Len(state[r])
         /\ \A c \in 1..Len(state[r]) :
              /\ result[r][c] \in Cells
              /\ result[r][c] = 1 <=>
                   \/ state[r][c] = 1 /\ LiveAround(state, r, c) \in {2, 3}
                   \/ state[r][c] = 0 /\ LiveAround(state, r, c) = 3

\* A full 3x3 neighbourhood: a live centre with more than 3 live neighbours
\* dies while a corner with exactly 3 is born or survives.
C1_Witness ==
  /\ lpc = "stepped"
  /\ Len(state) = 3 /\ NumCols(state) = 3
  /\ state[2][2] = 1 /\ LiveAround(state, 2, 2) = 5 /\ result[2][2] = 0
  /\ \E r \in {1, 3}, c \in {1, 3} : state[r][c] = 0 /\ result[r][c] = 1

\* Degenerate shapes pass through life_step.
C1_WitnessEmpty ==
  /\ lpc = "stepped"
  /\ Len(state) = 2 /\ NumCols(state) = 0
  /\ result = <<<<>>, <<>>>>
====
